---- MODULE Spec2Model ----
(***************************************************************************)
(* Model of webapp/publisher/snaps/build_views.py: the request handlers    *)
(* that glue the publisher dashboard to Launchpad (build farm) and GitHub. *)
(*                                                                         *)
(* One worker serves one request at a time.  A handler is one action: it   *)
(* draws the request and the answers of the remote services it consults,   *)
(* runs the whole handler, and leaves the request in req and the outcome   *)
(* (response, ordered log of remote calls, answers consulted) in resp.     *)
(* Launchpad's snap records and GitHub's webhooks persist across requests. *)
(***************************************************************************)
EXTENDS Integers, Sequences, FiniteSets, TLC

VARIABLES lp, hooks, phase, req, resp

vars == <<lp, hooks, phase, req, resp>>

(***************************************************************************)
(* Universe of the model.                                                  *)
(***************************************************************************)
Snaps == {"s1", "s2"}

Repos == {"o/r1", "o/r2"}

Branches == {"main", "dev"}

Refs == {"refs/heads/main", "refs/heads/dev", "refs/tags/main", "refs/tags/vmain"}

HttpErrors == {404, 408, 503}

(***************************************************************************)
(* Names and URLs the handlers compute.                                    *)
(***************************************************************************)
git_url(repo) == "https://github.com/" \o repo

repo_of_url(url) == SubSeq(url, 20, Len(url))

md5(url) == "md5(" \o url \o ")"

github_hook_url(snap_name) == "https://snapcraft.io/" \o snap_name \o "/webhook/notify"

gh_event_branch(ref) == SubSeq(ref, 12, Len(ref))

(***************************************************************************)
(* Launchpad: snap records keyed by their Launchpad name, md5 of the git   *)
(* URL.  NoSnap stands for Python's None.                                  *)
(***************************************************************************)
LpNames == {md5(git_url(r)) : r \in Repos}

NoSnap == [store_name |-> "", git_repository_url |-> "", self_link |-> ""]

LpRecord(store_name, url) ==
    [store_name |-> store_name, git_repository_url |-> url, self_link |-> md5(url)]

get_snap_by_store_name(store_name) ==
    IF \E n \in DOMAIN lp : lp[n].store_name = store_name
    THEN lp[CHOOSE n \in DOMAIN lp : lp[n].store_name = store_name]
    ELSE NoSnap

lp_has(name) == name \in DOMAIN lp

lp_without(S) == [n \in (DOMAIN lp) \ S |-> lp[n]]

lp_delete_snap(store_name) ==
    lp_without({n \in DOMAIN lp : lp[n].store_name = store_name})

lp_delete_link(self_link) ==
    lp_without({n \in DOMAIN lp : lp[n].self_link = self_link})

lp_create_snap(L, snap_name, url) ==
    [n \in (DOMAIN L) \cup {md5(url)} |->
        IF n = md5(url) THEN LpRecord(snap_name, url) ELSE L[n]]

(***************************************************************************)
(* Outcome records.                                                        *)
(***************************************************************************)
NoManifest == [location |-> "", name |-> ""]

NoFail == [at |-> "none", code |-> 0]

Manifests ==
    {NoManifest}
    \cup [location : {"snap/snapcraft.yaml"}, name : Snaps \cup {"other", "!invalid"}]

Fails ==
    {NoFail}
    \cup [at : {"is_snap_building", "cancel_snap_builds", "build_snap"}, code : HttpErrors]

NoAnswers ==
    [info |-> "", has_permission |-> FALSE, manifest |-> NoManifest,
     is_building |-> FALSE, fail |-> NoFail, lp_error |-> 0, macaroon_ok |-> FALSE,
     hook_error |-> "", delete_raises |-> FALSE, builds |-> <<>>,
     builders_status |-> <<>>]

Answers(manifest, is_building, fail) ==
    [NoAnswers EXCEPT !.manifest = manifest, !.is_building = is_building, !.fail = fail]

Resp(kind, status, body, calls, answers) ==
    [kind |-> kind, status |-> status, body |-> body, calls |-> calls,
     answers |-> answers, snap_builds |-> <<>>, total_builds |-> 0]

NoReq == [handler |-> "none"]

NoResp == Resp("none", 0, "", <<>>, NoAnswers)

CalledIn(r, op) == \E i \in 1..Len(r.calls) : r.calls[i] = op

Called(op) == CalledIn(resp, op)

CountCalls(op) == Cardinality({i \in 1..Len(resp.calls) : resp.calls[i] = op})

Finish(rq, rs, newLp, newHooks) ==
    /\ req' = rq
    /\ resp' = rs
    /\ lp' = newLp
    /\ hooks' = newHooks
    /\ phase' = "done"

(***************************************************************************)
(* validate_repo: result of checking the repository's snapcraft.yaml.      *)
(***************************************************************************)
validate_repo_no_name_check(snap_name, manifest) ==
    IF manifest.location = ""
    THEN [success |-> FALSE, type |-> "MISSING_YAML_FILE",
          calls |-> <<"gh.get_snapcraft_yaml_location">>]
    ELSE IF manifest.name = "!invalid"
    THEN [success |-> FALSE, type |-> "INVALID_YAML_FILE",
          calls |-> <<"gh.get_snapcraft_yaml_location", "gh.get_snapcraft_yaml_name">>]
    ELSE [success |-> TRUE, type |-> "",
          calls |-> <<"gh.get_snapcraft_yaml_location", "gh.get_snapcraft_yaml_name">>]

validate_repo(snap_name, manifest) ==
    IF manifest.location = ""
    THEN [success |-> FALSE, type |-> "MISSING_YAML_FILE",
          calls |-> <<"gh.get_snapcraft_yaml_location">>]
    ELSE IF manifest.name = "!invalid"
    THEN [success |-> FALSE, type |-> "INVALID_YAML_FILE",
          calls |-> <<"gh.get_snapcraft_yaml_location", "gh.get_snapcraft_yaml_name">>]
    ELSE IF manifest.name # snap_name
    THEN [success |-> FALSE, type |-> "SNAP_NAME_DOES_NOT_MATCH",
          calls |-> <<"gh.get_snapcraft_yaml_location", "gh.get_snapcraft_yaml_name">>]
    ELSE [success |-> TRUE, type |-> "",
          calls |-> <<"gh.get_snapcraft_yaml_location", "gh.get_snapcraft_yaml_name">>]

(***************************************************************************)
(* The cancel-then-recreate sequence shared by post_build and the webhook: *)
(*     if launchpad.is_snap_building(n): launchpad.cancel_snap_builds(n)   *)
(*     launchpad.build_snap(n)                                             *)
(* fail names the Launchpad call that raises HTTPError, if it is reached.  *)
(***************************************************************************)
request_build_retry(is_building, fail) ==
    IF fail.at = "is_snap_building"
    THEN [calls |-> <<"lp.is_snap_building">>, err |-> fail.code]
    ELSE IF is_building /\ fail.at = "cancel_snap_builds"
    THEN [calls |-> <<"lp.is_snap_building", "lp.cancel_snap_builds">>, err |-> fail.code]
    ELSE IF fail.at = "build_snap"
    THEN [calls |-> <<"lp.is_snap_building">>
                    \o (IF is_building THEN <<"lp.cancel_snap_builds">> ELSE <<>>)
                    \o <<"lp.build_snap", "lp.build_snap">>,
          err |-> fail.code]
    ELSE [calls |-> <<"lp.is_snap_building">>
                    \o (IF is_building THEN <<"lp.cancel_snap_builds">> ELSE <<>>)
                    \o <<"lp.build_snap">>,
          err |-> 0]

request_build(is_building, fail) ==
    IF fail.at = "is_snap_building"
    THEN [calls |-> <<"lp.is_snap_building">>, err |-> fail.code]
    ELSE IF is_building /\ fail.at = "cancel_snap_builds"
    THEN [calls |-> <<"lp.is_snap_building", "lp.cancel_snap_builds">>, err |-> fail.code]
    ELSE [calls |-> <<"lp.is_snap_building">>
                    \o (IF is_building THEN <<"lp.cancel_snap_builds">> ELSE <<>>)
                    \o <<"lp.build_snap">>,
          err |-> IF fail.at = "build_snap" THEN fail.code ELSE 0]

(***************************************************************************)
(* post_github_webhook(snap_name=None, github_owner=None, github_repo=None)*)
(* snap_name = "" is the legacy route /<owner>/<repo>/webhook/notify.      *)
(***************************************************************************)
WebhookRequests ==
    [handler : {"post_github_webhook"}, snap_name : Snaps \cup {""}, repo : Repos,
     default_branch : Branches, ref : Refs, signature_valid : BOOLEAN]

is_default_branch_push_unchecked(default_branch, ref) == TRUE

is_default_branch_push(default_branch, ref) == default_branch = gh_event_branch(ref)

repository_matches_unchecked(lp_snap, repo_url) == TRUE

repository_matches(lp_snap, repo_url) == lp_snap.git_repository_url = repo_url

signature_accepted_unchecked(rq) == TRUE

signature_accepted(rq) == rq.signature_valid

post_github_webhook ==
    /\ phase = "idle"
    /\ \E rq \in WebhookRequests :
        LET repo_url == git_url(rq.repo)
            by_name == rq.snap_name # ""
            lookup == IF by_name THEN "lp.get_snap_by_store_name" ELSE "lp.get_snap"
            lp_snap == IF by_name THEN get_snap_by_store_name(rq.snap_name)
                       ELSE IF lp_has(md5(repo_url)) THEN lp[md5(repo_url)]
                       ELSE NoSnap
        IN
        IF ~is_default_branch_push(rq.default_branch, rq.ref)
        THEN Finish(rq, Resp("text", 200, "The push event is not for the default branch",
                             <<>>, NoAnswers), lp, hooks)
        ELSE IF lp_snap = NoSnap
        THEN \* get_snap raises HTTPError 404; None["git_repository_url"] raises TypeError
             Finish(rq, Resp("exception", 500, IF by_name THEN "TypeError" ELSE "HTTPError",
                             <<lookup>>, NoAnswers), lp, hooks)
        ELSE IF ~repository_matches(lp_snap, repo_url)
        THEN Finish(rq, Resp("text", 403,
                             "The repository does not match the one used by this Snap",
                             <<lookup>>, NoAnswers), lp, hooks)
        ELSE IF ~signature_accepted(rq)
        THEN Finish(rq, Resp("text", 403, "Invalid secret",
                             <<lookup, "gh.validate_webhook_signature">>, NoAnswers),
                    lp, hooks)
        ELSE \E manifest \in Manifests :
            LET validation == validate_repo(lp_snap.store_name, manifest)
                c1 == <<lookup, "gh.validate_webhook_signature">> \o validation.calls
            IN
            IF ~validation.success
            THEN Finish(rq, Resp("text", 400, validation.type, c1,
                                 Answers(manifest, FALSE, NoFail)), lp, hooks)
            ELSE \E is_building \in BOOLEAN, fail \in Fails :
                LET b == request_build(is_building, fail) IN
                IF b.err # 0
                THEN Finish(rq, Resp("exception", 500, "HTTPError", c1 \o b.calls,
                                     Answers(manifest, is_building, fail)), lp, hooks)
                ELSE Finish(rq, Resp("text", 204, "", c1 \o b.calls,
                                     Answers(manifest, is_building, fail)), lp, hooks)

(***************************************************************************)
(* post_build(snap_name): trigger a new build.                             *)
(***************************************************************************)
BuildRequests ==
    [handler : {"post_build"}, snap_name : Snaps, account_snaps : SUBSET Snaps]

is_soft_failure_timeout_only(code) == code \in {408}

is_soft_failure(code) == code \in {408, 404}

post_build ==
    /\ phase = "idle"
    /\ \E rq \in BuildRequests :
        IF rq.snap_name \notin rq.account_snaps
        THEN Finish(rq, Resp("json", 200, "success: false, error: FORBIDDEN",
                             <<"api.get_account_snaps">>, NoAnswers), lp, hooks)
        ELSE \E is_building \in BOOLEAN, fail \in Fails :
            LET b == request_build(is_building, fail)
                calls == <<"api.get_account_snaps">> \o b.calls
                answers == Answers(NoManifest, is_building, fail)
            IN
            IF b.err # 0
            THEN IF is_soft_failure(b.err)
                 THEN Finish(rq, Resp("json", 200, "success: false", calls, answers),
                             lp, hooks)
                 ELSE Finish(rq, Resp("exception", 500, "HTTPError", calls, answers),
                             lp, hooks)
            ELSE Finish(rq, Resp("json", 200, "success: true", calls, answers), lp, hooks)

(***************************************************************************)
(* api.get_snap_info and the shared except clauses of the login-required   *)
(* handlers.                                                               *)
(***************************************************************************)
InfoResults == {"ok", "404", "error_list", "api_error"}

info_failure(info, answers) ==
    IF info = "404"
    THEN Resp("abort", 404, "No snap named", <<"api.get_snap_info">>, answers)
    ELSE Resp("error_page", 502, info, <<"api.get_snap_info">>, answers)

(***************************************************************************)
(* post_snap_builds(snap_name): connect a GitHub repository to a snap.     *)
(***************************************************************************)
ConnectRequests ==
    [handler : {"post_snap_builds"}, snap_name : Snaps, account_snaps : SUBSET Snaps,
     github_repository : Repos]

Hook(repo, url) == [repo |-> repo, url |-> url]

get_hook_by_url(repo, url) == Hook(repo, url) \in hooks

HookErrors == {"none", "get_hook_by_url", "create_hook"}

registered_without_name_any(repo_exist) == TRUE

registered_without_name(repo_exist) == repo_exist.store_name = ""

Redirect(flash, calls, answers) == Resp("redirect", 302, flash, calls, answers)

post_snap_builds ==
    /\ phase = "idle"
    /\ \E rq \in ConnectRequests, info \in InfoResults :
        LET a0 == [NoAnswers EXCEPT !.info = info]
            c2 == <<"api.get_snap_info", "api.get_account_snaps">>
        IN
        IF info # "ok"
        THEN Finish(rq, info_failure(info, a0), lp, hooks)
        ELSE IF rq.snap_name \notin rq.account_snaps
        THEN Finish(rq, Redirect("You do not have permissions to modify this Snap",
                                 c2, a0), lp, hooks)
        ELSE \E has_permission \in BOOLEAN :
            LET a1 == [a0 EXCEPT !.has_permission = has_permission]
                c3 == c2 \o <<"gh.check_permissions_over_repo">>
            IN
            IF ~has_permission
            THEN Finish(rq, Redirect("Your GitHub account doesn't have permissions in the repository",
                                     c3, a1), lp, hooks)
            ELSE \E manifest \in Manifests :
                LET a2 == [a1 EXCEPT !.manifest = manifest]
                    repo_validation == validate_repo(rq.snap_name, manifest)
                    c4 == c3 \o repo_validation.calls
                    c5 == c4 \o <<"lp.get_snap_by_store_name">>
                    lp_snap == get_snap_by_store_name(rq.snap_name)
                    url == git_url(rq.github_repository)
                    lp_snap_name == md5(url)
                IN
                IF ~repo_validation.success
                THEN Finish(rq, Redirect(repo_validation.type, c4, a2), lp, hooks)
                ELSE IF lp_snap # NoSnap
                THEN IF lp_snap.git_repository_url # url
                     THEN Finish(rq, Resp("exception", 500, "AttributeError", c5, a2),
                                 lp, hooks)
                     ELSE Finish(rq, Redirect("", c5, a2), lp, hooks)
                ELSE \E lp_error \in {0, 503} :
                    LET a3 == [a2 EXCEPT !.lp_error = lp_error]
                        c6 == c5 \o <<"lp.get_snap">>
                        \* HTTPError 404 from get_snap means no such record
                        repo_exist == IF lp_has(lp_snap_name) THEN lp[lp_snap_name]
                                      ELSE NoSnap
                        deletes == repo_exist # NoSnap /\ registered_without_name(repo_exist)
                        c7 == IF deletes THEN c6 \o <<"lp.DELETE">> ELSE c6
                        lp1 == IF deletes THEN lp_delete_link(repo_exist.self_link) ELSE lp
                    IN
                    IF lp_error # 0
                    THEN Finish(rq, Resp("exception", 500, "HTTPError", c6, a3), lp, hooks)
                    ELSE IF repo_exist # NoSnap /\ ~deletes
                    THEN Finish(rq, Redirect("The specified repository is being used by another snap",
                                             c6, a3), lp, hooks)
                    ELSE \E macaroon_ok \in BOOLEAN :
                        LET a4 == [a3 EXCEPT !.macaroon_ok = macaroon_ok]
                            c8 == c7 \o <<"api.get_package_upload_macaroon">>
                            c9 == c8 \o <<"lp.create_snap", "gh.get_hook_by_url">>
                            lp2 == lp_create_snap(lp1, rq.snap_name, url)
                            hook_url == github_hook_url(rq.snap_name)
                            hook == get_hook_by_url(rq.github_repository, hook_url)
                        IN
                        IF ~macaroon_ok
                        THEN Finish(rq, Resp("exception", 500, "ApiError", c8, a4), lp1, hooks)
                        ELSE \E hook_error \in HookErrors :
                            LET a5 == [a4 EXCEPT !.hook_error = hook_error] IN
                            IF hook_error = "get_hook_by_url"
                            THEN Finish(rq, Redirect("The GitHub Webhook could not be created.",
                                                     c9, a5), lp2, hooks)
                            ELSE IF hook
                            THEN Finish(rq, Redirect("The GitHub repository was linked correctly.",
                                                     c9, a5), lp2, hooks)
                            ELSE IF hook_error = "create_hook"
                            THEN Finish(rq, Redirect("The GitHub Webhook could not be created.",
                                                     c9 \o <<"gh.create_hook">>, a5), lp2, hooks)
                            ELSE Finish(rq, Redirect("The GitHub repository was linked correctly.",
                                                     c9 \o <<"gh.create_hook">>, a5), lp2,
                                        hooks \cup {Hook(rq.github_repository, hook_url)})

(***************************************************************************)
(* post_disconnect_repo(snap_name): remove the Launchpad record and, when  *)
(* the session holds a GitHub token, the webhook.                          *)
(***************************************************************************)
DisconnectRequests ==
    [handler : {"post_disconnect_repo"}, snap_name : Snaps, account_snaps : SUBSET Snaps,
     github_auth_secret : BOOLEAN]

post_disconnect_repo ==
    /\ phase = "idle"
    /\ \E rq \in DisconnectRequests, info \in InfoResults :
        LET a0 == [NoAnswers EXCEPT !.info = info]
            lp_snap == get_snap_by_store_name(rq.snap_name)
            c2 == <<"api.get_snap_info", "lp.get_snap_by_store_name", "lp.delete_snap">>
            lp1 == lp_delete_snap(rq.snap_name)
        IN
        IF info # "ok"
        THEN Finish(rq, info_failure(info, a0), lp, hooks)
        ELSE IF lp_snap = NoSnap
        THEN \* nothing to delete: Launchpad may refuse; None[...] raises TypeError
             \E delete_raises \in BOOLEAN :
                LET a1 == [a0 EXCEPT !.delete_raises = delete_raises] IN
                IF delete_raises
                THEN Finish(rq, Resp("exception", 500, "HTTPError", c2, a1), lp, hooks)
                ELSE IF rq.github_auth_secret
                THEN Finish(rq, Resp("exception", 500, "TypeError", c2, a1), lp, hooks)
                ELSE Finish(rq, Redirect("", c2, a1), lp, hooks)
        ELSE IF ~rq.github_auth_secret
        THEN Finish(rq, Redirect("", c2, a0), lp1, hooks)
        ELSE \E hook_error \in {"none", "get_hook_by_url", "remove_hook"} :
            LET a1 == [a0 EXCEPT !.hook_error = hook_error]
                repo == repo_of_url(lp_snap.git_repository_url)
                hook_url == github_hook_url(rq.snap_name)
                old_hook == get_hook_by_url(repo, hook_url)
                c3 == c2 \o <<"gh.get_hook_by_url">>
            IN
            IF hook_error = "get_hook_by_url" \/ ~old_hook
            THEN Finish(rq, Redirect("", c3, a1), lp1, hooks)
            ELSE IF hook_error = "remove_hook"
            THEN Finish(rq, Redirect("", c3 \o <<"gh.remove_hook">>, a1), lp1, hooks)
            ELSE Finish(rq, Redirect("", c3 \o <<"gh.remove_hook">>, a1), lp1,
                        hooks \ {Hook(repo, hook_url)})

(***************************************************************************)
(* The response is sent and the worker waits for the next request.         *)
(***************************************************************************)
Respond ==
    /\ phase = "done"
    /\ phase' = "idle"
    /\ req' = NoReq
    /\ resp' = NoResp
    /\ UNCHANGED <<lp, hooks>>

(***************************************************************************)
(* Launchpad may already hold records when the application starts: snaps   *)
(* connected earlier, and repositories registered without a store name.    *)
(* Store names are unique among the records that carry one.                *)
(***************************************************************************)
LpStates ==
    {L \in UNION {[D -> {LpRecord(s, git_url(r)) : s \in Snaps \cup {""}, r \in Repos}] :
                  D \in SUBSET LpNames} :
        /\ \A n \in DOMAIN L : L[n].self_link = n
        /\ \A n, m \in DOMAIN L :
              (n # m /\ L[n].store_name # "") => L[n].store_name # L[m].store_name}

Init ==
    /\ lp \in LpStates
    /\ hooks = {}
    /\ phase = "idle"
    /\ req = NoReq
    /\ resp = NoResp

Next ==
    \/ post_github_webhook
    \/ post_build
    \/ post_snap_builds
    \/ post_disconnect_repo
    \/ Respond

Spec == Init /\ [][Next]_vars

(***************************************************************************)
(* get_builds and get_snap_builds_json: the paginated build list.          *)
(* A build is what launchpad.get_snap_builds returns for it: id is the     *)
(* last segment of its self_link.  The fields get_builds copies verbatim   *)
(* (datebuilt, duration, logs, revision_id, title) are left out.           *)
(***************************************************************************)
MaxBuilds == 2

MaxStart == 2

MaxSize == 2

DefaultStart == 0

DefaultSize == 15

BuildStates == {"Needs building", "Successfully built"}

Archs == {"amd64", "arm64"}

Durations == {"None", "300"}

BuildLists ==
    UNION {{[i \in 1..n |-> [id |-> i, buildstate |-> f[i].buildstate,
                             arch_tag |-> f[i].arch_tag]] :
               f \in [1..n -> [buildstate : BuildStates, arch_tag : Archs]]} :
           n \in 0..MaxBuilds}

\* launchpad.get_builders_status(): estimated_duration per architecture
BuilderStatuses == UNION {[D -> Durations] : D \in SUBSET Archs}

Min(a, b) == IF a < b THEN a ELSE b

Max(a, b) == IF a > b THEN a ELSE b

\* Python's index clamping for seq[start:stop] (0-based, stop exclusive)
slice_index(i, len) == IF i < 0 THEN Max(len + i, 0) ELSE Min(i, len)

py_slice(seq, start, stop) ==
    SubSeq(seq, slice_index(start, Len(seq)) + 1, slice_index(stop, Len(seq)))

build_slice(start, size) == [start |-> start, stop |-> size]

needs_queue_time_always(build) == TRUE

needs_queue_time(build) == build.buildstate = "Needs building"

snap_build(build, builders_status) ==
    [id |-> build.id, arch_tag |-> build.arch_tag,
     queue_time |-> IF needs_queue_time(build)
                    THEN builders_status[build.arch_tag]
                    ELSE "None"]

\* builders_status[build["arch_tag"]] raises KeyError
get_builds_raises(selected, builders_status) ==
    \E i \in 1..Len(selected) :
        /\ needs_queue_time(selected[i])
        /\ selected[i].arch_tag \notin DOMAIN builders_status

get_builds_asks_builders(selected) ==
    \E i \in 1..Len(selected) : needs_queue_time(selected[i])

get_builds(builds, selection, builders_status) ==
    LET selected == py_slice(builds, selection.start, selection.stop) IN
    [total_builds |-> Len(builds),
     snap_builds |-> [i \in 1..Len(selected) |-> snap_build(selected[i], builders_status)]]

BuildsJsonRequests ==
    [handler : {"get_snap_builds_json"}, snap_name : Snaps,
     start : ((-1)..MaxStart) \cup {DefaultStart},
     size : ((-1)..MaxSize) \cup {DefaultSize}]

get_snap_builds_json ==
    /\ phase = "idle"
    /\ \E rq \in BuildsJsonRequests, info \in InfoResults :
        LET a0 == [NoAnswers EXCEPT !.info = info]
            c2 == <<"api.get_snap_info", "lp.get_snap_by_store_name">>
            c3 == c2 \o <<"lp.get_snap_builds">>
            lp_snap == get_snap_by_store_name(rq.snap_name)
            selection == build_slice(rq.start, rq.size)
        IN
        IF info # "ok"
        THEN Finish(rq, info_failure(info, a0), lp, hooks)
        ELSE IF lp_snap = NoSnap
        THEN \* the context keeps only "snap_builds": []; -1 marks the absent total
             Finish(rq, [Resp("json", 200, "", c2, a0) EXCEPT !.total_builds = -1],
                    lp, hooks)
        ELSE \E builds \in BuildLists :
            LET selected == py_slice(builds, selection.start, selection.stop)
                asks == get_builds_asks_builders(selected)
            IN
            \E builders_status \in (IF asks THEN BuilderStatuses ELSE {<<>>}) :
                LET a1 == [a0 EXCEPT !.builds = builds,
                                     !.builders_status = builders_status]
                    c4 == IF asks THEN c3 \o <<"lp.get_builders_status">> ELSE c3
                    out == get_builds(builds, selection, builders_status)
                IN
                IF get_builds_raises(selected, builders_status)
                THEN Finish(rq, Resp("exception", 500, "KeyError", c4, a1), lp, hooks)
                ELSE Finish(rq, [Resp("json", 200, "", c4, a1) EXCEPT
                                    !.snap_builds = out.snap_builds,
                                    !.total_builds = out.total_builds],
                            lp, hooks)

NextBuilds ==
    \/ get_snap_builds_json
    \/ Respond

SpecBuilds == Init /\ [][NextBuilds]_vars

(***************************************************************************)
(* Properties.  They are stated over the request, the answers the remote   *)
(* services gave, the response and the ordered log of remote calls.        *)
(***************************************************************************)
Done(handler) == phase = "done" /\ req.handler = handler

\* the pushed ref without its first 11 characters is the default branch
PassedBranch == SubSeq(req.ref, 12, Len(req.ref)) = req.default_branch

\* the Launchpad records the webhook's lookup finds for this request
WebhookSnaps ==
    {lp[n] : n \in {m \in DOMAIN lp :
                      IF req.snap_name # "" THEN lp[m].store_name = req.snap_name
                      ELSE m = md5(git_url(req.repo))}}

PassedRepository ==
    \E r \in WebhookSnaps : r.git_repository_url = git_url(req.repo)

ManifestValidFor(store_name) ==
    /\ resp.answers.manifest.location # ""
    /\ resp.answers.manifest.name # "!invalid"
    /\ resp.answers.manifest.name = store_name

NoBuildCalls == ~Called("lp.cancel_snap_builds") /\ ~Called("lp.build_snap")

NoManifestCalls ==
    ~Called("gh.get_snapcraft_yaml_location") /\ ~Called("gh.get_snapcraft_yaml_name")

\* C1: a webhook push that passes the branch and repository checks but whose
\* signature is invalid is answered 403, with no cancel, no build and no
\* manifest validation.
C1_InvalidSignatureRejected ==
    (Done("post_github_webhook") /\ PassedBranch /\ PassedRepository
        /\ ~req.signature_valid)
    => (resp.status = 403 /\ NoBuildCalls /\ NoManifestCalls)

C1_Witness ==
    /\ Done("post_github_webhook") /\ PassedBranch /\ PassedRepository
    /\ ~req.signature_valid
    /\ resp.body = "Invalid secret"

\* C2: a webhook push whose event branch (ref minus its first 11 characters)
\* differs from the default branch is answered 200 and makes no remote call at
\* all, neither to Launchpad nor to GitHub.
C2_OtherBranchIsNoOp ==
    (Done("post_github_webhook") /\ ~PassedBranch)
    => (resp.status = 200 /\ resp.calls = <<>>)

C2_Witness ==
    /\ Done("post_github_webhook")
    /\ req.ref = "refs/heads/dev" /\ req.default_branch = "main"
    /\ req.signature_valid
    /\ resp.status = 200

\* C3: connecting a repository whose snapcraft.yaml name was read and differs
\* from the snap name fails validation with SNAP_NAME_DOES_NOT_MATCH and the
\* handler redirects with no create_snap, no Launchpad DELETE and no
\* create_hook.
C3_NameMismatchCreatesNothing ==
    (Done("post_snap_builds")
        /\ resp.answers.manifest.location # ""
        /\ resp.answers.manifest.name # "!invalid"
        /\ resp.answers.manifest.name # req.snap_name)
    => /\ resp.kind = "redirect"
       /\ resp.body = "SNAP_NAME_DOES_NOT_MATCH"
       /\ ~Called("lp.create_snap")
       /\ ~Called("lp.DELETE")
       /\ ~Called("gh.create_hook")

C3_Witness ==
    /\ Done("post_snap_builds")
    /\ resp.answers.manifest.location # ""
    /\ resp.answers.manifest.name \in Snaps \ {req.snap_name}
    /\ resp.kind = "redirect"

\* the build of the full list that a returned record was made from
BuildOf(record) == resp.answers.builds[record.id]

BuildsListed == Done("get_snap_builds_json") /\ resp.kind = "json"

\* C4 (as claimed): every returned build record has a non-null queue_time
\* exactly when its build is in the Needs building state.
C4_QueueTimeIffNeedsBuilding ==
    BuildsListed =>
        \A i \in 1..Len(resp.snap_builds) :
            (resp.snap_builds[i].queue_time # "None")
            <=> (BuildOf(resp.snap_builds[i]).buildstate = "Needs building")

\* C4 (amended): a record of a build in any other state has queue_time None;
\* a record of a Needs building build carries the estimated_duration that the
\* builders status gives for its architecture, which may be None.
C4_QueueTimeIsBuildersEstimate ==
    BuildsListed =>
        \A i \in 1..Len(resp.snap_builds) :
            LET b == BuildOf(resp.snap_builds[i]) IN
            resp.snap_builds[i].queue_time =
                IF b.buildstate = "Needs building"
                THEN resp.answers.builders_status[b.arch_tag]
                ELSE "None"

C4_Witness ==
    /\ BuildsListed
    /\ \E i, j \in 1..Len(resp.snap_builds) :
          /\ BuildOf(resp.snap_builds[i]).buildstate = "Needs building"
          /\ resp.snap_builds[i].queue_time = "300"
          /\ BuildOf(resp.snap_builds[j]).buildstate = "Successfully built"
          /\ resp.snap_builds[j].queue_time = "None"

\* the Launchpad call of the build sequence that raised HTTPError
FailedCall ==
    \/ resp.answers.fail.at \in {"is_snap_building", "build_snap"}
    \/ resp.answers.fail.at = "cancel_snap_builds" /\ resp.answers.is_building

SoftJsonFailure == resp.kind = "json" /\ resp.body = "success: false"

\* C5 (as claimed): in post_build a Launchpad call failing with a timeout (408)
\* or a service-unavailable (503) HTTP error yields the soft JSON failure.
C5_TransientIsSoftFailure ==
    (Done("post_build") /\ FailedCall /\ resp.answers.fail.code \in {408, 503})
    => SoftJsonFailure

\* C5 (amended): in post_build a Launchpad call failing with HTTP 408 (timeout)
\* or 404 (not found) yields the soft JSON failure; any other HTTP error,
\* service-unavailable included, propagates as an exception.
C5_TimeoutOrNotFoundIsSoftFailure ==
    (Done("post_build") /\ FailedCall)
    => IF resp.answers.fail.code \in {408, 404}
       THEN SoftJsonFailure
       ELSE resp.kind = "exception"

C5_Witness ==
    /\ Done("post_build") /\ FailedCall
    /\ resp.answers.fail.code = 404
    /\ resp.answers.fail.at = "build_snap"
    /\ SoftJsonFailure

\* C6: for start s >= 0 and size n >= 0 the returned records are those of
\* L[s], ..., L[min(s+n, len(L)) - 1] in order, and total_builds = len(L).
C6_PageOfSizeFromStart ==
    (BuildsListed /\ resp.total_builds >= 0 /\ req.start >= 0 /\ req.size >= 0)
    => LET L == resp.answers.builds
           first == req.start + 1
           last == IF req.start + req.size < Len(L) THEN req.start + req.size ELSE Len(L)
           n == IF last >= first THEN last - first + 1 ELSE 0
       IN
       /\ resp.total_builds = Len(L)
       /\ Len(resp.snap_builds) = n
       /\ \A i \in 1..n : resp.snap_builds[i].id = L[first + i - 1].id

RemoteMutations ==
    {"lp.create_snap", "lp.delete_snap", "lp.DELETE", "lp.cancel_snap_builds",
     "lp.build_snap", "gh.create_hook", "gh.remove_hook"}

\* C7: in post_snap_builds, post_build and post_disconnect_repo, a request for
\* a snap that is not among the user's account snaps ends with a soft response
\* and performs no remote mutation.
C7_NonContributorMutatesNothing ==
    (phase = "done"
        /\ req.handler \in {"post_snap_builds", "post_build", "post_disconnect_repo"}
        /\ req.snap_name \notin req.account_snaps)
    => /\ resp.kind # "exception"
       /\ \A op \in RemoteMutations : ~Called(op)

\* C8: the webhook reaches cancel_snap_builds / build_snap only after the
\* branch check, the repository check, the signature check and validate_repo
\* all passed; a repository mismatch is answered 403 with no signature check,
\* no manifest validation and no build; a failed manifest validation is
\* answered 400 with no build.
C8_BuildOnlyAfterAllChecks ==
    Done("post_github_webhook") =>
        /\ ~NoBuildCalls =>
              /\ PassedBranch
              /\ PassedRepository
              /\ req.signature_valid
              /\ \E r \in WebhookSnaps : ManifestValidFor(r.store_name)
        /\ (PassedBranch /\ WebhookSnaps # {} /\ ~PassedRepository) =>
              /\ resp.status = 403
              /\ ~Called("gh.validate_webhook_signature")
              /\ NoManifestCalls
              /\ NoBuildCalls
        /\ (Called("gh.get_snapcraft_yaml_location")
                /\ ~\E r \in WebhookSnaps : ManifestValidFor(r.store_name)) =>
              /\ resp.status = 400
              /\ NoBuildCalls

C8_Witness ==
    /\ Done("post_github_webhook")
    /\ Called("lp.cancel_snap_builds") /\ Called("lp.build_snap")
    /\ resp.status = 204

Position(op) == CHOOSE i \in 1..Len(resp.calls) : resp.calls[i] = op

\* C9: in post_build and the webhook, cancel_snap_builds is called at most
\* once, only when is_snap_building answered true, and before build_snap;
\* build_snap is called at most once; no cancel when is_snap_building
\* answered false.
C9_OneCancelThenBuild ==
    (phase = "done" /\ req.handler \in {"post_build", "post_github_webhook"})
    => /\ CountCalls("lp.cancel_snap_builds") <= 1
       /\ CountCalls("lp.build_snap") <= 1
       /\ CountCalls("lp.is_snap_building") <= 1
       /\ Called("lp.cancel_snap_builds") =>
             /\ resp.answers.is_building
             /\ Called("lp.is_snap_building")
             /\ Position("lp.is_snap_building") < Position("lp.cancel_snap_builds")
       /\ (Called("lp.cancel_snap_builds") /\ Called("lp.build_snap")) =>
             Position("lp.cancel_snap_builds") < Position("lp.build_snap")
       /\ (Called("lp.is_snap_building") /\ ~resp.answers.is_building) =>
             ~Called("lp.cancel_snap_builds")

C9_Witness ==
    /\ Done("post_build")
    /\ resp.answers.is_building
    /\ Called("lp.cancel_snap_builds") /\ Called("lp.build_snap")
    /\ resp.body = "success: true"

\* C10: when post_snap_builds finds no record for the snap but one under the
\* md5 name of the repository URL, it deletes that record only if its
\* store_name is empty and then continues to create_snap; if the store_name is
\* non-empty it flashes and redirects without DELETE, create_snap or
\* create_hook.  No connect request removes or changes a record that carries a
\* non-empty store name.
C10_OnlyUnnamedRecordIsDeleted ==
    [][(phase' = "done" /\ req'.handler = "post_snap_builds") =>
        LET name == md5(git_url(req'.github_repository)) IN
        /\ (CalledIn(resp', "lp.get_snap") /\ resp'.answers.lp_error = 0
                /\ name \in DOMAIN lp) =>
              IF lp[name].store_name = ""
              THEN /\ CalledIn(resp', "lp.DELETE")
                   /\ CalledIn(resp', "api.get_package_upload_macaroon")
                   /\ resp'.answers.macaroon_ok =>
                         /\ CalledIn(resp', "lp.create_snap")
                         /\ lp'[name].store_name = req'.snap_name
              ELSE /\ resp'.kind = "redirect"
                   /\ resp'.body = "The specified repository is being used by another snap"
                   /\ ~CalledIn(resp', "lp.DELETE")
                   /\ ~CalledIn(resp', "lp.create_snap")
                   /\ ~CalledIn(resp', "gh.create_hook")
                   /\ lp' = lp /\ hooks' = hooks
        /\ \A n \in DOMAIN lp :
              lp[n].store_name # "" => (n \in DOMAIN lp' /\ lp'[n] = lp[n])
      ]_vars

C10_Witness ==
    /\ Done("post_snap_builds")
    /\ Called("lp.DELETE") /\ Called("lp.create_snap") /\ Called("gh.create_hook")
    /\ lp[md5(git_url(req.github_repository))].store_name = req.snap_name

====
